---- MODULE Spec2Model ----
(***************************************************************************)
(* Portfolio analytics backend (jacobi-strategies).                        *)
(*                                                                         *)
(* State: the module-level data cache of app/data/loader.py and the record *)
(* of the last completed call (its inputs, the values of its locals, the   *)
(* exception it raised or the value it returned).                          *)
(*                                                                         *)
(* Numbers: numpy floats are modelled as exact rationals <<n, d>> in       *)
(* lowest terms with d > 0, extended with the non-finite values            *)
(* <<1, 0>> (+inf), <<-1, 0>> (-inf) and <<0, 0>> (nan).  Rounding is not  *)
(* modelled.  Python lists are 1-based sequences here (index i+1 for i).   *)
(***************************************************************************)
EXTENDS Integers, Sequences, FiniteSets, TLC

VARIABLES RETURNS, ASSET_NAMES, ASSET_CATEGORIES, ASSET_INDEX_TO_CATEGORY, call

vars == <<RETURNS, ASSET_NAMES, ASSET_CATEGORIES, ASSET_INDEX_TO_CATEGORY, call>>

cache == <<RETURNS, ASSET_NAMES, ASSET_CATEGORIES, ASSET_INDEX_TO_CATEGORY>>

(***************************************************************************)
(* Bounds of the model.  The deployed data set has 25 assets, 20 periods   *)
(* and 10000 simulation paths.                                             *)
(***************************************************************************)
NAssets == 4

NPeriods == 3

NSims == 2

(***************************************************************************)
(* Arithmetic on floats.                                                   *)
(***************************************************************************)
Abs(x) == IF x < 0 THEN -x ELSE x

Sgn(x) == IF x < 0 THEN -1 ELSE IF x > 0 THEN 1 ELSE 0

RECURSIVE GCD(_, _)
GCD(a, b) == IF b = 0 THEN a ELSE GCD(b, a % b)

Rat(n, d) ==
    IF d = 0 THEN <<Sgn(n), 0>>
    ELSE LET g == GCD(Abs(n), Abs(d))
             s == IF d < 0 THEN -1 ELSE 1
         IN  <<(s * n) \div g, (s * d) \div g>>

Zero == <<0, 1>>

One == <<1, 1>>

NaN == <<0, 0>>

IsFinite(x) == x[2] # 0

RAdd(a, b) ==
    IF a[2] = 0 \/ b[2] = 0
    THEN IF a = NaN \/ b = NaN THEN NaN
         ELSE IF a[2] = 0 /\ b[2] = 0 THEN (IF a = b THEN a ELSE NaN)
         ELSE IF a[2] = 0 THEN a ELSE b
    ELSE LET g == GCD(a[2], b[2])
         IN  Rat(a[1] * (b[2] \div g) + b[1] * (a[2] \div g), (a[2] \div g) * b[2])

RNeg(a) == <<-a[1], a[2]>>

RSub(a, b) == RAdd(a, RNeg(b))

RMul(a, b) ==
    IF a[2] = 0 \/ b[2] = 0
    THEN IF a = NaN \/ b = NaN \/ a[1] = 0 \/ b[1] = 0 THEN NaN
         ELSE <<Sgn(a[1]) * Sgn(b[1]), 0>>
    ELSE LET g == GCD(Abs(a[1]), b[2])
             h == GCD(Abs(b[1]), a[2])
         IN  Rat((a[1] \div g) * (b[1] \div h), (a[2] \div h) * (b[2] \div g))

\* IEEE division: x/0 is +-inf for x # 0 and nan for x = 0; no exception.
RDiv(a, b) ==
    IF a = NaN \/ b = NaN THEN NaN
    ELSE IF b[2] = 0 THEN (IF a[2] = 0 THEN NaN ELSE Zero)
    ELSE IF a[2] = 0 THEN <<a[1] * (IF b[1] < 0 THEN -1 ELSE 1), 0>>
    ELSE IF b[1] = 0 THEN <<Sgn(a[1]), 0>>
    ELSE LET g == GCD(Abs(a[1]), Abs(b[1]))
             h == GCD(b[2], a[2])
         IN  Rat((a[1] \div g) * (b[2] \div h), (a[2] \div h) * (b[1] \div g))

\* a <= b; every comparison with nan is false
RLeq(a, b) ==
    IF a[2] = 0 \/ b[2] = 0
    THEN a # NaN /\ b # NaN /\ (a = b \/ a = <<-1, 0>> \/ b = <<1, 0>>)
    ELSE LET g == GCD(a[2], b[2]) IN a[1] * (b[2] \div g) <= b[1] * (a[2] \div g)

\* np.maximum / np.minimum: nan propagates
RMax(a, b) == IF a = NaN \/ b = NaN THEN NaN ELSE IF RLeq(a, b) THEN b ELSE a

RMin(a, b) == IF a = NaN \/ b = NaN THEN NaN ELSE IF RLeq(a, b) THEN a ELSE b

RECURSIVE MaxOf(_)
MaxOf(v) == IF Len(v) = 1 THEN v[1] ELSE RMax(v[1], MaxOf(Tail(v)))

RECURSIVE MinOf(_)
MinOf(v) == IF Len(v) = 1 THEN v[1] ELSE RMin(v[1], MinOf(Tail(v)))

RECURSIVE RSum(_)
RSum(v) == IF v = <<>> THEN Zero ELSE RAdd(v[1], RSum(Tail(v)))

RECURSIVE RProd(_)
RProd(v) == IF v = <<>> THEN One ELSE RMul(v[1], RProd(Tail(v)))

\* the entries of v at the positions where mask is TRUE, in order
RECURSIVE Masked(_, _)
Masked(v, mask) ==
    IF v = <<>> \/ mask = <<>> THEN <<>>
    ELSE (IF mask[1] THEN <<v[1]>> ELSE <<>>) \o Masked(Tail(v), Tail(mask))

CountTrue(mask) == Cardinality({i \in DOMAIN mask : mask[i]})

(***************************************************************************)
(* Python values.                                                          *)
(***************************************************************************)
None == <<>>

PyNone == [kind |-> "None"]

PyList(S) == [kind |-> "list", items |-> S]

PyStr(s) == [kind |-> "str", str |-> s]

\* bool(x) of an Optional argument: None, [] and "" are falsy
Truthy(x) ==
    CASE x.kind = "None" -> FALSE
      [] x.kind = "list" -> x.items # {}
      [] x.kind = "str" -> x.str # ""

IsSubstring(c, s) ==
    \E i \in 1..(Len(s) + 1) : \E j \in (i - 1)..Len(s) : SubSeq(s, i, j) = c

\* `c in x`: membership for a list, substring test for a str
PyIn(c, x) ==
    CASE x.kind = "list" -> c \in x.items
      [] x.kind = "str" -> IsSubstring(c, x.str)

(***************************************************************************)
(* Error messages (the text of the exception raised).                      *)
(***************************************************************************)
NoError == ""

CacheNotInitialized == "Data cache not initialized. Call initialize_cache() first."

CacheNotInitializedRestart == "Data cache not initialized. Please restart the API."

NoMatchingAssets == "No assets match the specified category filters"

NoneNotIterable == "'NoneType' object is not iterable"

ExpectedWeights == "Expected {n_total_assets} weights, got {len(weights)}"

DimensionMismatch == "Weights shape doesn't match returns assets dimension"

InvalidConfidence == "Confidence must be between 0 and 1"

InvalidVarMethod == "var_type must be 'pooled', 'year_by_year', or 'cumulative'"

ShapeMismatch == "Portfolio and benchmark returns must have the same shape"

CannotImportName == "cannot import name"

InvalidRebalanceMethod == "Invalid rebalancing strategy"

FileNotFound == "file not found"

AssetNotInCategories == "Asset not found in categories"

(***************************************************************************)
(* The data files.  An HDF5 file holds the return tensor and the asset     *)
(* names; a CSV file holds the asset_name -> category table.               *)
(***************************************************************************)
AssetNameList ==
    <<"Inflation-Protected Bond", "EM Debt", "Cash", "US Small Cap", "US Equity">>

CategoryList == <<"Fixed Income", "Fixed Income", "Cash", "Equity", "Equity">>

\* a second table, one that groups the assets under the names of the two
\* rebalancing regimes
RegimeList == <<"periodic", "none", "none", "periodic", "none">>

NameAt(i) == AssetNameList[((i - 1) % Len(AssetNameList)) + 1]

ReturnValues == <<Rat(1, 2), Zero, Rat(-1, 2), One>>

\* simple period returns in [-1.0, 1.1], one per (asset, period, path)
BaseReturns ==
    [a \in 1..NAssets |->
        [t \in 1..NPeriods |->
            [s \in 1..NSims |-> ReturnValues[((a * a + 2 * t + 3 * s + a * t * s) % 4) + 1]]]]

Hdf5Files ==
    { [exists |-> TRUE, returns |-> BaseReturns,
       asset_names |-> [i \in 1..NAssets |-> NameAt(i)]],
      [exists |-> FALSE, returns |-> None, asset_names |-> None] }

TableOf(list, n) ==
    [name \in {NameAt(i) : i \in 1..n} |->
        list[CHOOSE i \in 1..Len(list) : NameAt(i) = name]]

CsvFiles ==
    { [exists |-> TRUE, table |-> TableOf(CategoryList, NAssets)],
      [exists |-> TRUE, table |-> TableOf(RegimeList, NAssets)],
      [exists |-> TRUE, table |-> TableOf(CategoryList, 1)],
      [exists |-> FALSE, table |-> None] }

(***************************************************************************)
(* app/data/loader.py                                                      *)
(***************************************************************************)
load_data(hdf5) ==
    IF ~hdf5.exists THEN [error |-> FileNotFound, returns |-> None, asset_names |-> None]
    ELSE [error |-> NoError, returns |-> hdf5.returns, asset_names |-> hdf5.asset_names]

load_asset_categories(csv) ==
    IF ~csv.exists THEN [error |-> FileNotFound, table |-> None]
    ELSE [error |-> NoError, table |-> csv.table]

build_asset_index_to_category(asset_names, asset_categories) ==
    IF \E i \in DOMAIN asset_names : asset_names[i] \notin DOMAIN asset_categories
    THEN [error |-> AssetNotInCategories, map |-> None]
    ELSE [error |-> NoError,
          map |-> [idx \in 0..(Len(asset_names) - 1) |-> asset_categories[asset_names[idx + 1]]]]

\* the globals are assigned as the function goes: RETURNS and ASSET_NAMES
\* before the category table is read, the other two after the mapping is built
initialize_cache(hdf5, csv) ==
    LET d == load_data(hdf5)
        c == load_asset_categories(csv)
        m == build_asset_index_to_category(d.asset_names, c.table)
        done(err) == call' = [op |-> "initialize_cache", error |-> err]
    IN  IF d.error # NoError
        THEN /\ UNCHANGED cache
             /\ done(d.error)
        ELSE /\ RETURNS' = d.returns
             /\ ASSET_NAMES' = d.asset_names
             /\ IF c.error # NoError
                THEN /\ UNCHANGED <<ASSET_CATEGORIES, ASSET_INDEX_TO_CATEGORY>>
                     /\ done(c.error)
                ELSE IF m.error # NoError
                THEN /\ UNCHANGED <<ASSET_CATEGORIES, ASSET_INDEX_TO_CATEGORY>>
                     /\ done(m.error)
                ELSE /\ ASSET_INDEX_TO_CATEGORY' = m.map
                     /\ ASSET_CATEGORIES' = [i \in 1..Len(d.asset_names) |-> m.map[i - 1]]
                     /\ done(NoError)

\* get_cached_data returning the name list and the category list in each
\* other's place
get_cached_data_swapped ==
    IF RETURNS = None
    THEN [error |-> CacheNotInitialized, data |-> None]
    ELSE [error |-> NoError,
          data |-> <<RETURNS, ASSET_CATEGORIES, ASSET_NAMES, ASSET_INDEX_TO_CATEGORY>>]

get_cached_data ==
    IF RETURNS = None
    THEN [error |-> CacheNotInitialized, data |-> None]
    ELSE [error |-> NoError,
          data |-> <<RETURNS, ASSET_NAMES, ASSET_CATEGORIES, ASSET_INDEX_TO_CATEGORY>>]

(***************************************************************************)
(* app/api/logic.py                                                        *)
(***************************************************************************)
\* get_asset_mask with `elif exclude_categories:` for the second `if`: the
\* exclude filter is skipped whenever an include filter is given
get_asset_mask_elif(include_categories, exclude_categories) ==
    IF get_cached_data.error # NoError
    THEN [error |-> CacheNotInitializedRestart, asset_mask |-> None]
    ELSE IF (Truthy(include_categories) \/ Truthy(exclude_categories))
            /\ ASSET_CATEGORIES = None
    THEN [error |-> NoneNotIterable, asset_mask |-> None]
    ELSE
    LET n_assets == Len(ASSET_NAMES)
        asset_mask ==
            [i \in 1..n_assets |->
                IF Truthy(include_categories)
                THEN PyIn(ASSET_CATEGORIES[i], include_categories)
                ELSE Truthy(exclude_categories)
                        => ~PyIn(ASSET_CATEGORIES[i], exclude_categories)]
    IN  IF \A i \in 1..n_assets : ~asset_mask[i]
        THEN [error |-> NoMatchingAssets, asset_mask |-> None]
        ELSE [error |-> NoError, asset_mask |-> asset_mask]

get_asset_mask(include_categories, exclude_categories) ==
    IF get_cached_data.error # NoError
    THEN [error |-> CacheNotInitializedRestart, asset_mask |-> None]
    ELSE IF (Truthy(include_categories) \/ Truthy(exclude_categories))
            /\ ASSET_CATEGORIES = None
    THEN [error |-> NoneNotIterable, asset_mask |-> None]
    ELSE
    LET n_assets == Len(ASSET_NAMES)
        include_mask == [i \in 1..n_assets |-> PyIn(ASSET_CATEGORIES[i], include_categories)]
        exclude_mask == [i \in 1..n_assets |-> ~PyIn(ASSET_CATEGORIES[i], exclude_categories)]
        asset_mask ==
            [i \in 1..n_assets |->
                /\ (Truthy(include_categories) => include_mask[i])
                /\ (Truthy(exclude_categories) => exclude_mask[i])]
    IN  IF \A i \in 1..n_assets : ~asset_mask[i]
        THEN [error |-> NoMatchingAssets, asset_mask |-> None]
        ELSE [error |-> NoError, asset_mask |-> asset_mask]

\* normalize_weights without the `if weight_sum == 0` branch: it always
\* divides by the masked sum
normalize_weights_always_divides(weights, asset_mask) ==
    LET n_selected_assets == CountTrue(asset_mask)
        masked_weights == Masked(weights, asset_mask)
        weight_sum == RSum(masked_weights)
    IN  IF Len(weights) # Len(asset_mask)
        THEN [error |-> ExpectedWeights, normalized_weights |-> None, n_assets_used |-> 0]
        ELSE [error |-> NoError,
              normalized_weights |->
                  [i \in 1..n_selected_assets |-> RDiv(masked_weights[i], weight_sum)],
              n_assets_used |-> n_selected_assets]

\* normalize_weights dividing by weights.sum() instead of masked_weights.sum()
normalize_weights_total_sum(weights, asset_mask) ==
    LET n_selected_assets == CountTrue(asset_mask)
        masked_weights == Masked(weights, asset_mask)
        weight_sum == RSum(weights)
    IN  IF Len(weights) # Len(asset_mask)
        THEN [error |-> ExpectedWeights, normalized_weights |-> None, n_assets_used |-> 0]
        ELSE IF weight_sum = Zero
        THEN [error |-> NoError,
              normalized_weights |->
                  [i \in 1..n_selected_assets |-> RDiv(One, Rat(n_selected_assets, 1))],
              n_assets_used |-> n_selected_assets]
        ELSE [error |-> NoError,
              normalized_weights |->
                  [i \in 1..n_selected_assets |-> RDiv(masked_weights[i], weight_sum)],
              n_assets_used |-> n_selected_assets]

normalize_weights(weights, asset_mask) ==
    LET n_total_assets == Len(asset_mask)
        n_selected_assets == CountTrue(asset_mask)
        masked_weights == Masked(weights, asset_mask)
        weight_sum == RSum(masked_weights)
    IN  IF Len(weights) # n_total_assets
        THEN [error |-> ExpectedWeights, normalized_weights |-> None, n_assets_used |-> 0]
        ELSE IF weight_sum = Zero
        THEN [error |-> NoError,
              normalized_weights |->
                  [i \in 1..n_selected_assets |-> RDiv(One, Rat(n_selected_assets, 1))],
              n_assets_used |-> n_selected_assets]
        ELSE [error |-> NoError,
              normalized_weights |->
                  [i \in 1..n_selected_assets |-> RDiv(masked_weights[i], weight_sum)],
              n_assets_used |-> n_selected_assets]

\* np.einsum('a,ats->ts', w, R)
einsum(w, R) ==
    [t \in 1..Len(R[1]) |->
        [s \in 1..Len(R[1][1]) |->
            RSum([a \in 1..Len(w) |-> RMul(w[a], R[a][t][s])])]]

\* the locals of build_portfolio_returns when it stops with an exception
\* at get_asset_mask or at normalize_weights: nothing later was computed
Raised(error, asset_mask) ==
    [error |-> error, asset_mask |-> asset_mask, normalized_weights |-> None,
     masked_returns |-> None, portfolio_returns |-> None, n_assets_used |-> 0]

\* build_portfolio_returns catching the ValueError of get_asset_mask and
\* going on with every asset
build_portfolio_returns_all_assets(weights, include_categories, exclude_categories) ==
    LET m == get_asset_mask(include_categories, exclude_categories)
        asset_mask == IF m.error = NoMatchingAssets
                      THEN [i \in 1..Len(ASSET_NAMES) |-> TRUE] ELSE m.asset_mask
        w == normalize_weights(weights, asset_mask)
        masked_returns == Masked(RETURNS, asset_mask)
    IN  IF m.error \notin {NoError, NoMatchingAssets} THEN Raised(m.error, None)
        ELSE IF w.error # NoError THEN Raised(w.error, asset_mask)
        ELSE [error |-> NoError,
              asset_mask |-> asset_mask,
              normalized_weights |-> w.normalized_weights,
              masked_returns |-> masked_returns,
              portfolio_returns |-> einsum(w.normalized_weights, masked_returns),
              n_assets_used |-> w.n_assets_used]

build_portfolio_returns(weights, include_categories, exclude_categories) ==
    LET m == get_asset_mask(include_categories, exclude_categories)
        w == normalize_weights(weights, m.asset_mask)
        masked_returns == Masked(RETURNS, m.asset_mask)
    IN  IF m.error # NoError THEN Raised(m.error, None)
        ELSE IF w.error # NoError THEN Raised(w.error, m.asset_mask)
        ELSE [error |-> NoError,
              asset_mask |-> m.asset_mask,
              normalized_weights |-> w.normalized_weights,
              masked_returns |-> masked_returns,
              portfolio_returns |-> einsum(w.normalized_weights, masked_returns),
              n_assets_used |-> w.n_assets_used]

(***************************************************************************)
(* app/logic/stats.py                                                      *)
(***************************************************************************)
\* v in ascending order
RECURSIVE Sorted(_)
Sorted(v) ==
    IF v = <<>> THEN <<>>
    ELSE LET k == CHOOSE i \in DOMAIN v : \A j \in DOMAIN v : RLeq(v[i], v[j])
         IN  <<v[k]>> \o Sorted(SubSeq(v, 1, k - 1) \o SubSeq(v, k + 1, Len(v)))

mean(v) == RDiv(RSum(v), Rat(Len(v), 1))

median(v) ==
    LET o == Sorted(v)
        n == Len(v)
    IN  IF \E i \in DOMAIN v : v[i] = NaN THEN NaN
        ELSE IF n % 2 = 1 THEN o[(n + 1) \div 2]
        ELSE RDiv(RAdd(o[n \div 2], o[(n \div 2) + 1]), Rat(2, 1))

\* the largest r in lo..hi with r * r <= n
RECURSIVE ISqrtIn(_, _, _)
ISqrtIn(n, lo, hi) ==
    IF lo >= hi THEN lo
    ELSE LET mid == (lo + hi + 1) \div 2
         IN  IF mid * mid <= n THEN ISqrtIn(n, mid, hi) ELSE ISqrtIn(n, lo, mid - 1)

ISqrt(n) == ISqrtIn(n, 0, IF n < 46340 THEN n ELSE 46340)

IsSquare(n) == ISqrt(n) * ISqrt(n) = n

\* np.sqrt, exactly: a rational when x is the square of one, and otherwise the
\* irrational root itself, a value no arithmetic of the model is defined on
Sqrt(x) ==
    IF x = NaN \/ x[1] < 0 THEN NaN
    ELSE IF x[2] = 0 THEN x
    ELSE IF IsSquare(x[1]) /\ IsSquare(x[2]) THEN <<ISqrt(x[1]), ISqrt(x[2])>>
    ELSE [sqrt_of |-> x]

\* the square of a value Sqrt returned
Squared(r) == IF DOMAIN r = {"sqrt_of"} THEN r.sqrt_of ELSE RMul(r, r)

\* a * b for two non-negative roots: sqrt(x) * sqrt(y) = sqrt(x * y)
RootMul(a, b) == Sqrt(RMul(Squared(a), Squared(b)))

\* sum of (x - mean)^2 over ddof fewer than the number of entries
variance(v, ddof) ==
    LET m == mean(v)
        sq == [i \in DOMAIN v |-> RMul(RSub(v[i], m), RSub(v[i], m))]
    IN  RDiv(RSum(sq), Rat(Len(v) - ddof, 1))

\* np.std(v, ddof=ddof)
std(v, ddof) == Sqrt(variance(v, ddof))

\* x ** (1 / years), exactly: for a whole exponent, for the exponent 1/2, and
\* otherwise the power itself, a value no arithmetic of the model is defined on
Power(x, years) ==
    LET e == RDiv(One, years)
    IN  IF x = NaN \/ e = NaN THEN NaN
        ELSE IF e[2] = 1 /\ e[1] >= 1 THEN RProd([i \in 1..e[1] |-> x])
        ELSE IF e = Rat(1, 2) THEN Sqrt(x)
        ELSE [power_of |-> x, exponent |-> e]

annualised_return(period_returns, periods_per_year, aggregation) ==
    LET T == Len(period_returns)
        S == Len(period_returns[1])
        cumulative_returns ==
            [s \in 1..S |-> RProd([t \in 1..T |-> RAdd(One, period_returns[t][s])])]
        years == RDiv(Rat(T, 1), periods_per_year)
        cagr_per_sim == [s \in 1..S |-> RSub(Power(cumulative_returns[s], years), One)]
    IN  IF aggregation = "median" THEN median(cagr_per_sim) ELSE mean(cagr_per_sim)

\* np.mean unless the aggregation is "median"
aggregate(v, aggregation) == IF aggregation = "median" THEN median(v) ELSE mean(v)

\* column s of a (T, S) matrix
Column(P, s) == [t \in 1..Len(P) |-> P[t][s]]

\* (1 + period_returns).cumprod(axis=0)
cumprod(period_returns) ==
    [t \in 1..Len(period_returns) |->
        [s \in 1..Len(period_returns[1]) |->
            RProd([u \in 1..t |-> RAdd(One, period_returns[u][s])])]]

\* np.maximum.accumulate(x, axis=0)
maximum_accumulate(x) ==
    [t \in 1..Len(x) |->
        [s \in 1..Len(x[1]) |-> MaxOf([u \in 1..t |-> x[u][s]])]]

\* the local max_dd_per_sim of maximum_drawdown
max_dd_per_sim(period_returns) ==
    LET cumulative_returns == cumprod(period_returns)
        rolling_max == maximum_accumulate(cumulative_returns)
        drawdowns ==
            [t \in 1..Len(period_returns) |->
                [s \in 1..Len(period_returns[1]) |->
                    RSub(One, RDiv(cumulative_returns[t][s], rolling_max[t][s]))]]
    IN  [s \in 1..Len(period_returns[1]) |-> MaxOf(Column(drawdowns, s))]

maximum_drawdown(period_returns, aggregation) ==
    aggregate(max_dd_per_sim(period_returns), aggregation)

\* the local annualized_vol_per_sim of annualised_volatility and sharpe_ratio
annualized_vol_per_sim(period_returns, periods_per_year) ==
    [s \in 1..Len(period_returns[1]) |->
        RootMul(std(Column(period_returns, s), 1), Sqrt(periods_per_year))]

annualised_volatility(period_returns, periods_per_year, aggregation) ==
    aggregate(annualized_vol_per_sim(period_returns, periods_per_year), aggregation)

\* the local cagr_per_sim of annualised_return and sharpe_ratio
cagr_per_sim(period_returns, periods_per_year) ==
    LET T == Len(period_returns)
        cumulative_returns ==
            [s \in 1..Len(period_returns[1]) |->
                RProd([t \in 1..T |-> RAdd(One, period_returns[t][s])])]
        years == RDiv(Rat(T, 1), periods_per_year)
    IN  [s \in DOMAIN cumulative_returns |->
            RSub(Power(cumulative_returns[s], years), One)]

\* sharpe_ratio dividing the aggregated return by the aggregated volatility
sharpe_ratio_of_aggregates(period_returns, risk_free_rate, periods_per_year, aggregation) ==
    RDiv(RSub(aggregate(cagr_per_sim(period_returns, periods_per_year), aggregation),
              risk_free_rate),
         annualised_volatility(period_returns, periods_per_year, aggregation))

sharpe_ratio(period_returns, risk_free_rate, periods_per_year, aggregation) ==
    LET cagr == cagr_per_sim(period_returns, periods_per_year)
        vol == annualized_vol_per_sim(period_returns, periods_per_year)
        sharpe_per_sim ==
            [s \in DOMAIN cagr |-> RDiv(RSub(cagr[s], risk_free_rate), vol[s])]
    IN  aggregate(sharpe_per_sim, aggregation)

\* the functions app/logic/stats.py defines
StatsFunctions ==
    {"annualised_return", "annualised_volatility", "sharpe_ratio", "tracking_error",
     "downside_deviation", "value_at_risk_1period", "value_at_risk",
     "conditional_value_at_risk_1period", "conditional_value_at_risk", "maximum_drawdown"}

\* from app.logic.stats import name
import_from_stats(name) ==
    IF name \in StatsFunctions THEN NoError ELSE CannotImportName

\* ndarray.shape of a (T, S) matrix
shape(P) == <<Len(P), Len(P[1])>>

\* the annualised tracking error of each simulation and their aggregate
tracking_error_of(excess_returns, periods_per_year, aggregation) ==
    LET tracking_error_per_sim ==
            [s \in 1..Len(excess_returns[1]) |-> std(Column(excess_returns, s), 1)]
        annualized_te_per_sim ==
            [s \in DOMAIN tracking_error_per_sim |->
                RootMul(tracking_error_per_sim[s], Sqrt(periods_per_year))]
    IN  aggregate(annualized_te_per_sim, aggregation)

\* tracking_error comparing len() of the two matrices instead of their
\* shapes; the columns they have in common are subtracted
tracking_error_len_only(portfolio_returns, benchmark_returns, periods_per_year, aggregation) ==
    LET S == IF Len(portfolio_returns[1]) < Len(benchmark_returns[1])
             THEN Len(portfolio_returns[1]) ELSE Len(benchmark_returns[1])
        excess_returns ==
            [t \in 1..Len(portfolio_returns) |->
                [s \in 1..S |-> RSub(portfolio_returns[t][s], benchmark_returns[t][s])]]
    IN  IF Len(portfolio_returns) # Len(benchmark_returns)
        THEN [error |-> ShapeMismatch, excess_returns |-> None, value |-> None]
        ELSE [error |-> NoError, excess_returns |-> excess_returns,
              value |-> tracking_error_of(excess_returns, periods_per_year, aggregation)]

tracking_error(portfolio_returns, benchmark_returns, periods_per_year, aggregation) ==
    LET excess_returns ==
            [t \in 1..Len(portfolio_returns) |->
                [s \in 1..Len(portfolio_returns[1]) |->
                    RSub(portfolio_returns[t][s], benchmark_returns[t][s])]]
    IN  IF shape(portfolio_returns) # shape(benchmark_returns)
        THEN [error |-> ShapeMismatch, excess_returns |-> None, value |-> None]
        ELSE [error |-> NoError, excess_returns |-> excess_returns,
              value |-> tracking_error_of(excess_returns, periods_per_year, aggregation)]

\* period_returns.flatten(): row after row
RECURSIVE flatten(_)
flatten(P) == IF P = <<>> THEN <<>> ELSE P[1] \o flatten(Tail(P))

\* np.quantile(a, q, method='lower'): no interpolation
quantile_lower(a, q) ==
    LET o == Sorted(a)
        n == Len(a)
        h == RMul(q, Rat(n - 1, 1))
        lo == h[1] \div h[2]
    IN  IF lo + 1 >= n THEN o[n] ELSE o[lo + 1]

\* np.quantile(a, q), linear interpolation between the order statistics
\* around position q * (n - 1)
quantile(a, q) ==
    LET o == Sorted(a)
        n == Len(a)
        h == RMul(q, Rat(n - 1, 1))
        lo == h[1] \div h[2]
        frac == RSub(h, Rat(lo, 1))
    IN  IF lo + 1 >= n THEN o[n]
        ELSE RAdd(o[lo + 1], RMul(frac, RSub(o[lo + 2], o[lo + 1])))

\* a[a <= threshold]
RECURSIVE AtMost(_, _)
AtMost(a, threshold) ==
    IF a = <<>> THEN <<>>
    ELSE (IF RLeq(a[1], threshold) THEN <<a[1]>> ELSE <<>>) \o AtMost(Tail(a), threshold)

\* (1 + period_returns).prod(axis=0) - 1
terminal_returns(period_returns) ==
    [s \in 1..Len(period_returns[1]) |->
        RSub(RProd([t \in 1..Len(period_returns) |-> RAdd(One, period_returns[t][s])]), One)]

VarTypes == {"pooled", "year_by_year", "cumulative"}

\* value_at_risk_1period with var_quantile = confidence: the upper tail
value_at_risk_1period_upper(period_returns, confidence, var_type) ==
    IF ~(RLeq(Zero, confidence) /\ confidence # Zero
         /\ RLeq(confidence, One) /\ confidence # One)
    THEN [error |-> InvalidConfidence, value |-> None]
    ELSE IF var_type \notin VarTypes
    THEN [error |-> InvalidVarMethod, value |-> None]
    ELSE IF var_type = "pooled"
    THEN [error |-> NoError, value |-> quantile(flatten(period_returns), confidence)]
    ELSE IF var_type = "year_by_year"
    THEN [error |-> NoError,
          value |-> [year \in 1..Len(period_returns) |->
                        quantile(period_returns[year], confidence)]]
    ELSE [error |-> NoError,
          value |-> quantile(terminal_returns(period_returns), confidence)]

\* value_at_risk_1period with the two validations in the other order
value_at_risk_1period_method_first(period_returns, confidence, var_type) ==
    LET var_quantile == RSub(One, confidence)
    IN  IF var_type \notin VarTypes
        THEN [error |-> InvalidVarMethod, value |-> None]
        ELSE IF ~(RLeq(Zero, confidence) /\ confidence # Zero
                  /\ RLeq(confidence, One) /\ confidence # One)
        THEN [error |-> InvalidConfidence, value |-> None]
        ELSE IF var_type = "pooled"
        THEN [error |-> NoError, value |-> quantile(flatten(period_returns), var_quantile)]
        ELSE IF var_type = "year_by_year"
        THEN [error |-> NoError,
              value |-> [year \in 1..Len(period_returns) |->
                            quantile(period_returns[year], var_quantile)]]
        ELSE [error |-> NoError,
              value |-> quantile(terminal_returns(period_returns), var_quantile)]

value_at_risk_1period(period_returns, confidence, var_type) ==
    LET var_quantile == RSub(One, confidence)
    IN  IF ~(RLeq(Zero, confidence) /\ confidence # Zero
             /\ RLeq(confidence, One) /\ confidence # One)
        THEN [error |-> InvalidConfidence, value |-> None]
        ELSE IF var_type \notin VarTypes
        THEN [error |-> InvalidVarMethod, value |-> None]
        ELSE IF var_type = "pooled"
        THEN [error |-> NoError, value |-> quantile(flatten(period_returns), var_quantile)]
        ELSE IF var_type = "year_by_year"
        THEN [error |-> NoError,
              value |-> [year \in 1..Len(period_returns) |->
                            quantile(period_returns[year], var_quantile)]]
        ELSE [error |-> NoError,
              value |-> quantile(terminal_returns(period_returns), var_quantile)]

value_at_risk(period_returns, confidence, var_type) ==
    value_at_risk_1period(period_returns, confidence, var_type)

\* the mean of the values at or below the quantile, or the quantile itself
\* when there is none
tail_mean(a, var_quantile) ==
    LET var_threshold == quantile(a, var_quantile)
        tail_returns == AtMost(a, var_threshold)
    IN  IF Len(tail_returns) = 0 THEN var_threshold ELSE mean(tail_returns)

\* conditional_value_at_risk_1period averaging the whole sample instead of
\* the tail
conditional_value_at_risk_1period_no_tail(period_returns, confidence, var_type) ==
    IF ~(RLeq(Zero, confidence) /\ confidence # Zero
         /\ RLeq(confidence, One) /\ confidence # One)
    THEN [error |-> InvalidConfidence, value |-> None]
    ELSE IF var_type \notin VarTypes
    THEN [error |-> InvalidVarMethod, value |-> None]
    ELSE IF var_type = "pooled"
    THEN [error |-> NoError, value |-> mean(flatten(period_returns))]
    ELSE IF var_type = "year_by_year"
    THEN [error |-> NoError,
          value |-> [year \in 1..Len(period_returns) |-> mean(period_returns[year])]]
    ELSE [error |-> NoError, value |-> mean(terminal_returns(period_returns))]

conditional_value_at_risk_1period(period_returns, confidence, var_type) ==
    LET var_quantile == RSub(One, confidence)
    IN  IF ~(RLeq(Zero, confidence) /\ confidence # Zero
             /\ RLeq(confidence, One) /\ confidence # One)
        THEN [error |-> InvalidConfidence, value |-> None]
        ELSE IF var_type \notin VarTypes
        THEN [error |-> InvalidVarMethod, value |-> None]
        ELSE IF var_type = "pooled"
        THEN [error |-> NoError, value |-> tail_mean(flatten(period_returns), var_quantile)]
        ELSE IF var_type = "year_by_year"
        THEN [error |-> NoError,
              value |-> [year \in 1..Len(period_returns) |->
                            tail_mean(period_returns[year], var_quantile)]]
        ELSE [error |-> NoError,
              value |-> tail_mean(terminal_returns(period_returns), var_quantile)]

conditional_value_at_risk(period_returns, confidence, var_type) ==
    conditional_value_at_risk_1period(period_returns, confidence, var_type)

(***************************************************************************)
(* app/api/schemas.py: ForecastStatisticRequest                            *)
(***************************************************************************)
Tolerance == Rat(11, 1000000)

validate_weights(v) ==
    /\ Len(v) = NAssets
    /\ \A i \in DOMAIN v : IsFinite(v[i])
    /\ \A i \in DOMAIN v : v[i][1] >= 0
    /\ LET d == RSub(RSum(v), One) IN RLeq(<<Abs(d[1]), d[2]>>, Tolerance)

validate_periods_per_year(v) == v[1] > 0 /\ IsFinite(v)

validate_aggregation(v) == v \in {"mean", "median"}

validate_rebalance(v) == v \in {"periodic", "none"}

validate_category_lists(v) == v.kind = "None" \/ (v.kind = "list" /\ v.items # {})

\* validate_category_conflicts without the test of the intersection
validate_category_conflicts_no_test(include, v) ==
    v.kind = "None" \/ include.kind = "None" \/ v.kind = "list"

validate_category_conflicts(include, v) ==
    v.kind = "None" \/ include.kind = "None" \/ include.items \cap v.items = {}

ValidRequest(request) ==
    /\ validate_weights(request.weights)
    /\ validate_periods_per_year(request.periods_per_year)
    /\ validate_aggregation(request.aggregation)
    /\ validate_rebalance(request.rebalance)
    /\ validate_category_lists(request.include_categories)
    /\ validate_category_lists(request.exclude_categories)
    /\ validate_category_conflicts(request.include_categories, request.exclude_categories)

(***************************************************************************)
(* app/schemas/inputs.py: BaseInputs                                       *)
(***************************************************************************)
\* BaseInputs(include_categories=..., exclude_categories=...), the other
\* fields at their defaults: the conflict validator sees include_categories
\* only if that field passed its own validator
BaseInputs(include_categories, exclude_categories) ==
    IF \E v \in {include_categories, exclude_categories} : v.kind = "list" /\ v.items = {}
    THEN [error |-> "Category filter lists cannot be empty", inputs |-> None]
    ELSE IF /\ exclude_categories.kind # "None"
            /\ include_categories.kind # "None"
            /\ include_categories.items \cap exclude_categories.items # {}
    THEN [error |-> "Cannot have overlapping categories", inputs |-> None]
    ELSE [error |-> NoError,
          inputs |-> [include_categories |-> include_categories,
                      exclude_categories |-> exclude_categories]]

(***************************************************************************)
(* app/api/routes.py                                                       *)
(***************************************************************************)
\* POST /annualised_return.  The handler hands request.rebalance to
\* build_portfolio_returns as its second positional argument.
forecast_annualised_return(request) ==
    LET b == build_portfolio_returns(request.weights, PyStr(request.rebalance), PyNone)
    IN  IF ~ValidRequest(request)
        THEN [status |-> 422, detail |-> "validation error", value |-> None,
              n_assets_used |-> 0, built |-> Raised("validation error", None)]
        ELSE IF b.error # NoError
        THEN [status |-> 400, detail |-> b.error, value |-> None,
              n_assets_used |-> 0, built |-> b]
        ELSE [status |-> 200, detail |-> NoError,
              value |-> annualised_return(b.portfolio_returns, request.periods_per_year,
                                          request.aggregation),
              n_assets_used |-> b.n_assets_used, built |-> b]

(***************************************************************************)
(* app/services/portfolio.py                                               *)
(***************************************************************************)
\* the body of the `if t < T - 1` block: the weights for the next period,
\* from the weights `current_weights` the block multiplies with the
\* cumulative asset returns of periods 1..t
drift_update(current_weights, returns, t) ==
    LET A == Len(returns)
        S == Len(returns[1][1])
        cumulative_asset_returns ==
            [a \in 1..A |->
                [s \in 1..S |-> RProd([u \in 1..t |-> RAdd(One, returns[a][u][s])])]]
        weighted_cumulative ==
            [a \in 1..A |->
                [s \in 1..S |-> RMul(current_weights[a], cumulative_asset_returns[a][s])]]
        sums == [s \in 1..S |-> RSum([a \in 1..A |-> weighted_cumulative[a][s]])]
        weight_sums == [s \in 1..S |-> IF sums[s] = Zero THEN One ELSE sums[s]]
        averaged ==
            [a \in 1..A |->
                mean([s \in 1..S |-> RDiv(weighted_cumulative[a][s], weight_sums[s])])]
        total == RSum(averaged)
    IN  [a \in 1..A |-> RDiv(averaged[a], total)]

\* the loop of _calculate_buy_and_hold_returns from period t on; `out` holds
\* the rows of portfolio_returns written so far and the value current_weights
\* had in each iteration
RECURSIVE buy_and_hold_loop(_, _, _, _)
buy_and_hold_loop(t, current_weights, returns, out) ==
    LET T == Len(returns[1])
        S == Len(returns[1][1])
        row == [s \in 1..S |->
                   RSum([a \in 1..Len(returns) |-> RMul(current_weights[a], returns[a][t][s])])]
        now == [portfolio_returns |-> Append(out.portfolio_returns, row),
                current_weights |-> Append(out.current_weights, current_weights)]
    IN  IF t > T THEN out
        ELSE IF t < T
        THEN buy_and_hold_loop(t + 1, drift_update(current_weights, returns, t), returns, now)
        ELSE now

_calculate_buy_and_hold_returns(weights, returns) ==
    buy_and_hold_loop(1, weights, returns,
                      [portfolio_returns |-> <<>>, current_weights |-> <<>>])

\* portfolio_period_returns letting the weights drift under 'periodic' too
portfolio_period_returns_drifting(weights, returns, rebalance) ==
    IF Len(weights) # Len(returns)
    THEN [error |-> DimensionMismatch, portfolio_returns |-> None, current_weights |-> None]
    ELSE IF rebalance \in {"periodic", "none"}
    THEN LET r == _calculate_buy_and_hold_returns(weights, returns)
         IN  [error |-> NoError, portfolio_returns |-> r.portfolio_returns,
              current_weights |-> IF rebalance = "none" THEN r.current_weights ELSE None]
    ELSE [error |-> InvalidRebalanceMethod, portfolio_returns |-> None,
          current_weights |-> None]

\* portfolio_period_returns looking at the strategy before the shapes
portfolio_period_returns_strategy_first(weights, returns, rebalance) ==
    IF rebalance \notin {"periodic", "none"}
    THEN [error |-> InvalidRebalanceMethod, portfolio_returns |-> None,
          current_weights |-> None]
    ELSE IF Len(weights) # Len(returns)
    THEN [error |-> DimensionMismatch, portfolio_returns |-> None, current_weights |-> None]
    ELSE IF rebalance = "periodic"
    THEN [error |-> NoError, portfolio_returns |-> einsum(weights, returns),
          current_weights |-> None]
    ELSE LET r == _calculate_buy_and_hold_returns(weights, returns)
         IN  [error |-> NoError, portfolio_returns |-> r.portfolio_returns,
              current_weights |-> r.current_weights]

\* portfolio_period_returns with `else` for `elif rebalance == "none"`: every
\* other strategy is taken for buy-and-hold
portfolio_period_returns_else_none(weights, returns, rebalance) ==
    IF Len(weights) # Len(returns)
    THEN [error |-> DimensionMismatch, portfolio_returns |-> None, current_weights |-> None]
    ELSE IF rebalance = "periodic"
    THEN [error |-> NoError, portfolio_returns |-> einsum(weights, returns),
          current_weights |-> None]
    ELSE LET r == _calculate_buy_and_hold_returns(weights, returns)
         IN  [error |-> NoError, portfolio_returns |-> r.portfolio_returns,
              current_weights |-> r.current_weights]

portfolio_period_returns(weights, returns, rebalance) ==
    IF Len(weights) # Len(returns)
    THEN [error |-> DimensionMismatch, portfolio_returns |-> None, current_weights |-> None]
    ELSE IF rebalance = "periodic"
    THEN [error |-> NoError, portfolio_returns |-> einsum(weights, returns),
          current_weights |-> None]
    ELSE IF rebalance = "none"
    THEN LET r == _calculate_buy_and_hold_returns(weights, returns)
         IN  [error |-> NoError, portfolio_returns |-> r.portfolio_returns,
              current_weights |-> r.current_weights]
    ELSE [error |-> InvalidRebalanceMethod, portfolio_returns |-> None,
          current_weights |-> None]

to_cumulative_returns(period_returns) == cumprod(period_returns)

calculate_annualized_metrics(portfolio_returns, periods_per_year) ==
    LET S == Len(portfolio_returns[1])
        mean_period == [s \in 1..S |-> mean(Column(portfolio_returns, s))]
        vol_period == [s \in 1..S |-> std(Column(portfolio_returns, s), 1)]
    IN  IF periods_per_year # One
        THEN [annualized_mean |-> [s \in 1..S |-> RMul(mean_period[s], periods_per_year)],
              annualized_volatility |->
                  [s \in 1..S |-> RootMul(vol_period[s], Sqrt(periods_per_year))]]
        ELSE [annualized_mean |-> mean_period, annualized_volatility |-> vol_period]

portfolio_analysis_pipeline(weights, returns, rebalance, periods_per_year) ==
    LET p == portfolio_period_returns(weights, returns, rebalance)
        period_returns == p.portfolio_returns
        T == Len(period_returns)
        S == Len(period_returns[1])
        cumulative_returns == to_cumulative_returns(period_returns)
        m == calculate_annualized_metrics(period_returns, periods_per_year)
        peak_values == maximum_accumulate(cumulative_returns)
        drawdowns ==
            [t \in 1..T |->
                [s \in 1..S |->
                    RDiv(RSub(cumulative_returns[t][s], peak_values[t][s]),
                         peak_values[t][s])]]
    IN  IF p.error # NoError
        THEN [error |-> p.error, period_returns |-> None, cumulative_returns |-> None,
              annualized_mean |-> None, annualized_volatility |-> None,
              total_return |-> None, max_drawdown |-> None]
        ELSE [error |-> NoError,
              period_returns |-> period_returns,
              cumulative_returns |-> cumulative_returns,
              annualized_mean |-> m.annualized_mean,
              annualized_volatility |-> m.annualized_volatility,
              total_return |-> [s \in 1..S |-> RSub(cumulative_returns[T][s], One)],
              max_drawdown |-> [s \in 1..S |-> MinOf(Column(drawdowns, s))]]

(***************************************************************************)
(* app/services/portfolio.py: calculate_asset_metrics                      *)
(***************************************************************************)
\* a float of the model: a pair; roots and transcendental values are records
IsFloat(x) == DOMAIN x = 1..2

IsNaN(x) == IsFloat(x) /\ x = NaN

\* np.where(weights > 0)[0]: nan > 0 is false
selected_indices_of(weights) ==
    Masked([i \in DOMAIN weights |-> i],
           [i \in DOMAIN weights |-> weights[i] # NaN /\ ~RLeq(weights[i], Zero)])

\* asset_names[a] if a < len(asset_names) else f"Asset_{a+1}"
asset_name_of(asset_names, a) ==
    IF a <= Len(asset_names) THEN asset_names[a] ELSE <<"Asset_", a>>

\* the series of one asset (its (T, S) slice) under an aggregation; no branch
\* assigns it for any other aggregation
asset_data_of(slice, aggregation) ==
    LET T == Len(slice)
        S == Len(slice[1])
    IN  IF aggregation = "pooled" THEN flatten(slice)
        ELSE IF aggregation = "year_by_year" THEN [t \in 1..T |-> mean(slice[t])]
        ELSE IF aggregation = "simulation_by_simulation"
        THEN [s \in 1..S |-> mean(Column(slice, s))]
        ELSE None

\* np.exp(np.mean(np.log(1 + asset_data)) * periods_per_year) - 1 is the
\* product of the 1 + r to the power periods_per_year / n, minus 1 (kept as
\* that power when the exponent is not whole); the log of a negative number
\* is nan.  Of log returns it is exp(.) - 1 itself.
asset_annualised_return(asset_data, periods_per_year, is_log) ==
    LET n == Len(asset_data)
        gross == [i \in 1..n |-> RAdd(One, asset_data[i])]
    IN  IF is_log
        THEN (IF mean(asset_data) = NaN THEN NaN
              ELSE [expm1_of |-> RMul(mean(asset_data), periods_per_year)])
        ELSE IF \E i \in 1..n : gross[i] = NaN \/ gross[i][1] < 0 THEN NaN
        ELSE LET years == RDiv(Rat(n, 1), periods_per_year)
                 e == RDiv(One, years)
             IN  IF e[2] = 1 /\ e[1] >= 1 THEN RSub(Power(RProd(gross), years), One)
                 ELSE [minus_one_of |-> <<RProd(gross), e>>]

\* entry (i, j) of np.cov(X): a single observation leaves 0 * inf = nan
cov(X, i, j) ==
    LET N == Len(X[i])
        mi == mean(X[i])
        mj == mean(X[j])
    IN  RMul(RSum([k \in 1..N |-> RMul(RSub(X[i][k], mi), RSub(X[j][k], mj))]),
             RDiv(One, Rat(N - 1, 1)))

\* c / stddev[i] / stddev[i]: the row's deviation used for both divisions
correlation_of_row_scaled(c, di, dj) ==
    LET q == RMul(RDiv(c, di), RDiv(c, di))
        root == Sqrt(q)
    IN  IF c = NaN \/ di = NaN \/ dj = NaN \/ di = Zero \/ dj = Zero THEN NaN
        ELSE IF IsFloat(root) THEN (IF c[1] < 0 THEN RNeg(root) ELSE root)
        ELSE [signed_root |-> <<Sgn(c[1]), q>>]

\* c / stddev[i] / stddev[j], exactly: the signed root of
\* (c / d[i]) * (c / d[j]); a zero variance leaves 0 / 0 = nan
correlation_of(c, di, dj) ==
    LET q == RMul(RDiv(c, di), RDiv(c, dj))
        root == Sqrt(q)
    IN  IF c = NaN \/ di = NaN \/ dj = NaN \/ di = Zero \/ dj = Zero THEN NaN
        ELSE IF IsFloat(root) THEN (IF c[1] < 0 THEN RNeg(root) ELSE root)
        ELSE [signed_root |-> <<Sgn(c[1]), q>>]

\* np.corrcoef(X), rows as variables: a matrix, and for a single row the
\* scalar c / c
corrcoef(X) ==
    LET n == Len(X)
    IN  IF n = 1
        THEN [ndim |-> 0, m |-> RDiv(cov(X, 1, 1), cov(X, 1, 1))]
        ELSE [ndim |-> 2,
              m |-> [i \in 1..n |->
                        [j \in 1..n |->
                            correlation_of(cov(X, i, j), cov(X, i, i), cov(X, j, j))]]]

\* np.clip(x, -0.9999, 0.9999); a root of q <= 0.9998 lies strictly inside
clip(x) ==
    IF IsNaN(x) THEN NaN
    ELSE IF IsFloat(x) THEN RMax(Rat(-9999, 10000), RMin(x, Rat(9999, 10000)))
    ELSE IF RLeq(x.signed_root[2], Rat(9998, 10000)) THEN x
    ELSE [clip_of |-> x]

\* np.arctanh of a clipped correlation: a finite number, or nan
arctanh(x) == IF IsNaN(x) THEN NaN ELSE [arctanh_of |-> x]

\* np.nanmean of the z-scores of one entry: the nan ones are left out
mean_z_nanmean(zs) ==
    LET kept == {k \in DOMAIN zs : ~IsNaN(zs[k])}
    IN  IF kept = {} THEN NaN ELSE [mean_of |-> [k \in kept |-> zs[k]]]

\* np.mean of the z-scores of one entry
mean_z(zs) == IF \E k \in DOMAIN zs : IsNaN(zs[k]) THEN NaN ELSE [mean_of |-> zs]

\* np.tanh
tanh(z) == IF IsNaN(z) THEN NaN ELSE [tanh_of |-> z]

\* np.fill_diagonal raises for the scalar that the correlation of a single
\* row is
_fisher_average_correlations(corr_matrices) ==
    LET K == Len(corr_matrices)
        n == Len(corr_matrices[1].m)
        z(k, i, j) == arctanh(clip(corr_matrices[k].m[i][j]))
    IN  IF corr_matrices = <<>> THEN [error |-> NoError, ndim |-> 1, m |-> <<>>]
        ELSE IF corr_matrices[1].ndim < 2
        THEN [error |-> "array must be at least 2-d", ndim |-> 0, m |-> None]
        ELSE [error |-> NoError, ndim |-> 2,
              m |-> [i \in 1..n |->
                        [j \in 1..n |->
                            IF i = j THEN One
                            ELSE tanh(mean_z([k \in 1..K |-> z(k, i, j)]))]]]

CorrMethods == {"pooled", "year_by_year", "simulation_by_simulation"}

\* the correlation matrices of the slices that corr_method averages
corr_matrices_of(selected_returns, corr_method) ==
    LET n == Len(selected_returns)
        T == Len(selected_returns[1])
        S == Len(selected_returns[1][1])
    IN  IF corr_method = "year_by_year"
        THEN [t \in 1..T |-> corrcoef([i \in 1..n |-> selected_returns[i][t]])]
        ELSE IF corr_method = "simulation_by_simulation"
        THEN [s \in 1..S |-> corrcoef([i \in 1..n |-> Column(selected_returns[i], s)])]
        ELSE <<>>

\* Step 2 up to the reporting loop: corr_matrix, unbound for any other
\* corr_method
corr_matrix_of(selected_returns, corr_method) ==
    LET n == Len(selected_returns)
    IN  IF corr_method = "pooled"
        THEN [error |-> NoError, bound |-> TRUE]
             @@ corrcoef([i \in 1..n |-> flatten(selected_returns[i])])
        ELSE IF corr_method \in CorrMethods
        THEN [bound |-> TRUE]
             @@ _fisher_average_correlations(corr_matrices_of(selected_returns, corr_method))
        ELSE [error |-> NoError, bound |-> FALSE, ndim |-> 0, m |-> None]

\* the reporting loop's value for the pair (i, j); of the values a matrix
\* holds only a float can fail np.isfinite
reported_correlation(corr_matrix, i, j) ==
    IF i = j THEN One
    ELSE IF IsNaN(corr_matrix.m[i][j])
            \/ (IsFloat(corr_matrix.m[i][j]) /\ ~IsFinite(corr_matrix.m[i][j]))
    THEN Zero
    ELSE corr_matrix.m[i][j]

\* the reporting loop and the returned dictionary, from the asset_returns
\* list of Step 1 and the matrix of Step 2; an UnboundLocalError ends the
\* call when no branch has assigned corr_matrix; the pairs are reported in
\* row-major order
asset_metrics_report(selected_indices, asset_names, asset_returns, corr_matrices, corr_matrix) ==
    LET n == Len(selected_indices)
        row(p) == ((p - 1) \div n) + 1
        col(p) == ((p - 1) % n) + 1
        error == IF corr_matrix.error # NoError THEN corr_matrix.error
                 ELSE IF ~corr_matrix.bound /\ n >= 2
                 THEN "local variable 'corr_matrix' referenced before assignment"
                 ELSE NoError
    IN  IF error # NoError
        THEN [error |-> error, asset_metrics |-> None, correlation_matrix |-> None,
              selected_indices |-> selected_indices, corr_matrices |-> None,
              corr_matrix |-> None]
        ELSE [error |-> NoError,
              asset_metrics |-> asset_returns,
              correlation_matrix |->
                  [p \in 1..(n * n) |->
                      [asset1 |-> asset_name_of(asset_names, selected_indices[row(p)]),
                       asset2 |-> asset_name_of(asset_names, selected_indices[col(p)]),
                       correlation |-> reported_correlation(corr_matrix, row(p), col(p))]],
              selected_indices |-> selected_indices,
              corr_matrices |-> corr_matrices,
              corr_matrix |-> corr_matrix.m]

\* an UnboundLocalError ends the call in Step 1 when no branch has assigned
\* asset_data
calculate_asset_metrics(returns, weights, periods_per_year, is_log, aggregation, corr_method) ==
    LET selected_indices == selected_indices_of(weights)
        n == Len(selected_indices)
        c == get_cached_data
        data(i) == asset_data_of(returns[selected_indices[i]], aggregation)
        selected_returns == [i \in 1..n |-> returns[selected_indices[i]]]
        raise(error) ==
            [error |-> error, asset_metrics |-> None, correlation_matrix |-> None,
             selected_indices |-> selected_indices, corr_matrices |-> None,
             corr_matrix |-> None]
    IN  IF n = 0
        THEN [error |-> NoError, asset_metrics |-> <<>>, correlation_matrix |-> <<>>,
              selected_indices |-> <<>>, corr_matrices |-> <<>>, corr_matrix |-> None]
        ELSE IF c.error # NoError THEN raise(c.error)
        ELSE IF aggregation \notin CorrMethods
        THEN raise("local variable 'asset_data' referenced before assignment")
        ELSE asset_metrics_report(
                 selected_indices, c.data[2],
                 [i \in 1..n |->
                     [asset |-> asset_name_of(c.data[2], selected_indices[i]),
                      annualised_return |->
                          asset_annualised_return(data(i), periods_per_year, is_log),
                      annualised_volatility |->
                          RootMul(std(data(i), 0), Sqrt(periods_per_year))]],
                 corr_matrices_of(selected_returns, corr_method),
                 corr_matrix_of(selected_returns, corr_method))

(***************************************************************************)
(* app/api/schemas.py: AssetMetricsRequest; app/api/routes.py              *)
(***************************************************************************)
\* the Field constraints and validators of AssetMetricsRequest: the weights
\* have a length constraint and no validator
ValidAssetMetricsRequest(request) ==
    /\ Len(request.weights) = NAssets
    /\ validate_periods_per_year(request.periods_per_year)
    /\ request.aggregation \in {"pooled", "year_by_year", "simulation_by_simulation"}
    /\ request.corr_method \in {"pooled", "year_by_year", "simulation_by_simulation"}

\* the handler's try block around the call: any exception becomes a 400
asset_metrics_response(asset_metrics) ==
    [status |-> IF asset_metrics.error # NoError THEN 400 ELSE 200,
     detail |-> asset_metrics.error, computed |-> asset_metrics]

\* POST /asset_metrics
asset_metrics_endpoint(request) ==
    IF ~ValidAssetMetricsRequest(request)
    THEN [status |-> 422, detail |-> "validation error", computed |-> None]
    ELSE IF get_cached_data.error # NoError
    THEN [status |-> 400, detail |-> get_cached_data.error, computed |-> None]
    ELSE asset_metrics_response(
             calculate_asset_metrics(get_cached_data.data[1], request.weights,
                                     request.periods_per_year, request.is_log,
                                     request.aggregation, request.corr_method))

(***************************************************************************)
(* Inputs.                                                                 *)
(***************************************************************************)
EqualWeights(n) == [i \in 1..n |-> Rat(1, n)]

OneHot(n, k) == [i \in 1..n |-> IF i = k THEN One ELSE Zero]

ZeroWeights(n) == [i \in 1..n |-> Zero]

\* 1/2 on the first asset, the rest spread over the last two
Skewed(n) ==
    [i \in 1..n |-> IF i = 1 THEN Rat(1, 2) ELSE IF i >= n - 1 /\ n >= 3 THEN Rat(1, 4)
                    ELSE IF n = 2 THEN Rat(1, 2) ELSE Zero]

\* entries that cancel: 1, -1, 0, ...
Cancelling(n) == [i \in 1..n |-> IF i = 1 THEN One ELSE IF i = 2 THEN Rat(-1, 1) ELSE Zero]

WeightVectors ==
    { EqualWeights(NAssets), OneHot(NAssets, 1), OneHot(NAssets, 3), Skewed(NAssets),
      ZeroWeights(NAssets), Cancelling(NAssets), EqualWeights(NAssets - 1) }

CategoryFilters ==
    { PyNone, PyList({}), PyList({"Equity"}), PyList({"Cash"}),
      PyList({"NonExistentCategory"}), PyList({"Fixed Income", "Cash"}), PyList({"none"}) }

AssetMasks == [1..NAssets -> BOOLEAN]

Requests ==
    [weights : {EqualWeights(NAssets), OneHot(NAssets, 1), OneHot(NAssets, 3),
                ZeroWeights(NAssets)},
     periods_per_year : {Rat(NPeriods, 1)},
     aggregation : {"mean", "median"},
     rebalance : {"periodic", "none", "invalid"},
     include_categories : CategoryFilters \ {PyList({"Fixed Income", "Cash"}), PyList({"Cash"})},
     exclude_categories : {PyNone, PyList({"Equity"}), PyList({"none"}),
                           PyList({"Equity", "Cash"})}]

\* tests/test_portfolio.py: returns of shape (2, 2, 2) and weights [0.6, 0.4]
ScenarioReturns ==
    << << <<Rat(1, 10), Rat(2, 10)>>, <<Rat(5, 100), Rat(-1, 10)>> >>,
       << <<Rat(15, 100), Rat(25, 100)>>, <<Rat(8, 100), Rat(-5, 100)>> >> >>

ScenarioWeights == <<Rat(6, 10), Rat(4, 10)>>

\* tests/test_portfolio.py: one asset, two periods, two paths
SingleAssetReturns == << << <<Rat(1, 10), Rat(2, 10)>>, <<Rat(5, 100), Rat(-1, 10)>> >> >>

DriftValues == <<Zero, One, Rat(-1, 2), One>>

\* the k-th tensor of A assets, with returns that differ from asset to asset,
\* period to period and between odd and even paths.  It has at most three
\* periods and two kinds of path: the exact weights of a longer or more
\* varied one have numerators beyond the integers of the model checker.
Tensor(k, A) ==
    [a \in 1..A |->
        [t \in 1..(IF NPeriods < 3 THEN NPeriods ELSE 3) |->
            [s \in 1..NSims |->
                DriftValues[((k * a + t + ((s - 1) % 2) * (a + k) + a * t) % 4) + 1]]]]

\* every asset loses everything in the first period on the paths in `paths`;
\* the other paths are all alike
Crash(A, paths) ==
    [a \in 1..A |->
        [t \in 1..NPeriods |->
            [s \in 1..NSims |-> IF t = 1 /\ s \in paths THEN Rat(-1, 1)
                                ELSE <<Rat(1, 2), Zero, Rat(-1, 2), One>>[((a + t) % 4) + 1]]]]

NTensors == 3

ReturnTensors ==
    {ScenarioReturns, SingleAssetReturns}
    \cup {Tensor(k, A) : k \in 1..NTensors, A \in 1..NAssets}
    \cup {Crash(A, paths) : A \in 1..NAssets, paths \in {{}, {1}, 1..NSims}}

BuilderWeights ==
    {ScenarioWeights}
    \cup {EqualWeights(n) : n \in 1..NAssets}
    \cup {OneHot(n, 1) : n \in 1..NAssets}
    \cup {Skewed(n) : n \in 2..NAssets}

RebalanceValues == {"periodic", "none", "invalid", "Periodic"}

\* return series that are repeated to the length of a column: constant ones
\* (10%, the 2% of the tests' risk-free rate, 0%), the two columns of the
\* statistics tests, a total loss in the first period, a halving that is
\* made up
ColumnPatterns ==
    << <<Rat(1, 10)>>, <<Rat(1, 50)>>, <<Zero>>,
       <<Rat(1, 10), Rat(1, 20), Rat(-1, 20)>>, <<Rat(1, 5), Rat(-1, 10), Zero>>,
       <<Rat(-1, 1), Rat(1, 10)>>, <<Rat(-1, 2), One>> >>

Cyc(seq, T) == [t \in 1..T |-> seq[((t - 1) % Len(seq)) + 1]]

\* the (T, S) matrix whose column s is the pattern k + (s - 1) * j
PatternMatrix(k, j, T, S) ==
    [t \in 1..T |->
        [s \in 1..S |->
            Cyc(ColumnPatterns[((k - 1 + (s - 1) * j) % Len(ColumnPatterns)) + 1], T)[t]]]

\* tests/test_stats.py: the (3, 2) matrix of the VaR tests
VarTestReturns ==
    << <<Rat(1, 10), Rat(1, 5)>>, <<Rat(1, 20), Rat(-1, 10)>>, <<Rat(-1, 20), Zero>> >>

ReturnMatrices ==
    {VarTestReturns}
    \cup {PatternMatrix(k, j, T, S) :
             k \in 1..Len(ColumnPatterns), j \in {0, 1, 3}, T \in 1..NPeriods, S \in 1..NSims}

Aggregations == {"mean", "median", "max"}

PeriodsPerYear == {One, Rat(2, 1)}

\* portfolio and benchmark matrices of one or two periods, with two periods
\* per year: the product std * sqrt(periods_per_year) is then a rational
TrackingPortfolios ==
    {PatternMatrix(k, 1, T, S) : k \in 1..Len(ColumnPatterns), T \in 1..2, S \in {1, NSims}}

TrackingBenchmarks ==
    {PatternMatrix(k, 0, T, S) : k \in 1..Len(ColumnPatterns), T \in 1..2, S \in {1, NSims}}

\* every simulation's returns are constant over the periods
ZeroVolatility(P) == \A s \in 1..Len(P[1]) : \A t \in 1..Len(P) : P[t][s] = P[1][s]

\* matrices of one or two periods with as many periods per year, and the
\* constant ones of two periods with one period per year: the returns and
\* volatilities of these are rationals
SharpeInputs ==
    LET M(T) == {PatternMatrix(k, j, T, S) :
                    k \in 1..Len(ColumnPatterns), j \in {0, 1, 3}, S \in 1..NSims}
    IN  {<<P, Rat(T, 1)>> : P \in M(1), T \in {1}}
        \cup {<<P, Rat(T, 1)>> : P \in M(2), T \in {2}}
        \cup {<<P, One>> : P \in {Q \in M(2) : ZeroVolatility(Q)}}

RiskFreeRates == {Zero, Rat(1, 50), Rat(1, 10)}

\* tests/test_stats.py: the names it imports from app.logic.stats
ImportedNames ==
    {"annualised_return", "annualised_volatility", "sharpe_ratio", "tracking_error",
     "downside_deviation", "value_at_risk", "conditional_value_at_risk",
     "maximum_drawdown", "sortino_ratio", "information_ratio", "calmar_ratio"}

\* the weights of asset_metrics requests: among them two that no portfolio
\* has, a sum of 2 and an infinite entry
AssetMetricsRequests ==
    [weights : {EqualWeights(NAssets), OneHot(NAssets, 1), Skewed(NAssets),
                Cancelling(NAssets), EqualWeights(NAssets - 1),
                [i \in 1..NAssets |-> IF i <= 2 THEN One ELSE Zero],
                [i \in 1..NAssets |-> IF i = 1 THEN <<1, 0>> ELSE Zero]},
     periods_per_year : {Rat(NSims, 1)},
     is_log : {FALSE},
     aggregation : {"pooled", "year_by_year", "mean"},
     corr_method : CorrMethods \cup {"mean"}]

Confidences ==
    {Rat(-1, 2), Zero, Rat(1, 100), Rat(1, 2), Rat(9, 10), Rat(19, 20), One, Rat(3, 2)}

VarTypeValues == VarTypes \cup {"historical"}

\* the first periods of a tensor, three at most
FirstPeriods(R) ==
    [a \in DOMAIN R |-> SubSeq(R[a], 1, IF Len(R[a]) < 3 THEN Len(R[a]) ELSE 3)]

\* the single-asset tensor of tests/test_portfolio.py and the tensors with a
\* total loss, cut to three periods: the exact variance of a longer series of
\* drifting returns has numerators beyond the integers of the model checker
PipelineTensors ==
    {SingleAssetReturns}
    \cup {FirstPeriods(Crash(A, paths)) : A \in 1..NAssets, paths \in {{}, {1}, 1..NSims}}

(***************************************************************************)
(* Actions: one per call of the program's entry points.  Calls are         *)
(* synchronous: a call is made when no other call's result is pending, and *)
(* its record is dropped when the caller has taken the result.             *)
(***************************************************************************)
Idle == [op |-> "idle"]

Init ==
    /\ RETURNS = None
    /\ ASSET_NAMES = None
    /\ ASSET_CATEGORIES = None
    /\ ASSET_INDEX_TO_CATEGORY = None
    /\ call = Idle

InitializeCache ==
    /\ call = Idle
    /\ \E hdf5 \in Hdf5Files, csv \in CsvFiles : initialize_cache(hdf5, csv)

GetCachedData ==
    /\ call = Idle
    /\ call' = [op |-> "get_cached_data", error |-> get_cached_data.error,
                data |-> get_cached_data.data]
    /\ UNCHANGED cache

GetAssetMask ==
    /\ call = Idle
    /\ \E include \in CategoryFilters, exclude \in CategoryFilters :
        call' = [op |-> "get_asset_mask", include_categories |-> include,
                 exclude_categories |-> exclude,
                 result |-> get_asset_mask(include, exclude)]
    /\ UNCHANGED cache

NormalizeWeights ==
    /\ call = Idle
    /\ \E weights \in WeightVectors, asset_mask \in AssetMasks :
        call' = [op |-> "normalize_weights", weights |-> weights,
                 asset_mask |-> asset_mask,
                 result |-> normalize_weights(weights, asset_mask)]
    /\ UNCHANGED cache

BuildPortfolioReturns ==
    /\ call = Idle
    /\ \E weights \in WeightVectors, include \in CategoryFilters,
          exclude \in CategoryFilters :
        call' = [op |-> "build_portfolio_returns", weights |-> weights,
                 include_categories |-> include, exclude_categories |-> exclude,
                 result |-> build_portfolio_returns(weights, include, exclude)]
    /\ UNCHANGED cache

ForecastAnnualisedReturn ==
    /\ call = Idle
    /\ \E request \in Requests :
        call' = [op |-> "forecast_annualised_return", request |-> request,
                 response |-> forecast_annualised_return(request)]
    /\ UNCHANGED cache

PortfolioPeriodReturns ==
    /\ call = Idle
    /\ \E weights \in BuilderWeights, returns \in ReturnTensors,
          rebalance \in RebalanceValues :
        call' = [op |-> "portfolio_period_returns", weights |-> weights,
                 returns |-> returns, rebalance |-> rebalance,
                 result |-> portfolio_period_returns(weights, returns, rebalance)]
    /\ UNCHANGED cache

PortfolioAnalysisPipeline ==
    /\ call = Idle
    /\ \E weights \in BuilderWeights, returns \in PipelineTensors,
          rebalance \in RebalanceValues, periods_per_year \in PeriodsPerYear :
        call' = [op |-> "portfolio_analysis_pipeline", weights |-> weights,
                 returns |-> returns, rebalance |-> rebalance,
                 periods_per_year |-> periods_per_year,
                 result |-> portfolio_analysis_pipeline(weights, returns, rebalance,
                                                        periods_per_year)]
    /\ UNCHANGED cache

ValueAtRisk ==
    /\ call = Idle
    /\ \E period_returns \in ReturnMatrices, confidence \in Confidences,
          var_type \in VarTypeValues :
        call' = [op |-> "value_at_risk", period_returns |-> period_returns,
                 confidence |-> confidence, var_type |-> var_type,
                 result |-> value_at_risk(period_returns, confidence, var_type)]
    /\ UNCHANGED cache

ConditionalValueAtRisk ==
    /\ call = Idle
    /\ \E period_returns \in ReturnMatrices, confidence \in Confidences,
          var_type \in VarTypeValues :
        call' = [op |-> "conditional_value_at_risk", period_returns |-> period_returns,
                 confidence |-> confidence, var_type |-> var_type,
                 result |-> conditional_value_at_risk(period_returns, confidence, var_type)]
    /\ UNCHANGED cache

CalculateAssetMetrics ==
    /\ call = Idle
    /\ \E returns \in {BaseReturns, Tensor(1, NAssets), Crash(NAssets, {1})},
          weights \in WeightVectors \cup {r.weights : r \in AssetMetricsRequests}
                      \cup {OneHot(NAssets, 2)},
          is_log \in BOOLEAN, aggregation \in CorrMethods \cup {"mean"},
          corr_method \in CorrMethods \cup {"mean"} :
        call' = [op |-> "calculate_asset_metrics", returns |-> returns,
                 weights |-> weights, periods_per_year |-> Rat(NSims, 1),
                 is_log |-> is_log, aggregation |-> aggregation,
                 corr_method |-> corr_method,
                 result |-> calculate_asset_metrics(returns, weights, Rat(NSims, 1),
                                                    is_log, aggregation, corr_method)]
    /\ UNCHANGED cache

AssetMetricsEndpoint ==
    /\ call = Idle
    /\ \E request \in AssetMetricsRequests :
        call' = [op |-> "asset_metrics", request |-> request,
                 response |-> asset_metrics_endpoint(request)]
    /\ UNCHANGED cache

ValidateBaseInputs ==
    /\ call = Idle
    /\ \E include \in CategoryFilters, exclude \in CategoryFilters :
        call' = [op |-> "BaseInputs", include_categories |-> include,
                 exclude_categories |-> exclude,
                 result |-> BaseInputs(include, exclude)]
    /\ UNCHANGED cache

ImportFromStats ==
    /\ call = Idle
    /\ \E name \in ImportedNames :
        call' = [op |-> "import", name |-> name, error |-> import_from_stats(name)]
    /\ UNCHANGED cache

SharpeRatio ==
    /\ call = Idle
    /\ \E input \in SharpeInputs, risk_free_rate \in RiskFreeRates,
          aggregation \in Aggregations :
        call' = [op |-> "sharpe_ratio", period_returns |-> input[1],
                 risk_free_rate |-> risk_free_rate, periods_per_year |-> input[2],
                 aggregation |-> aggregation,
                 result |-> sharpe_ratio(input[1], risk_free_rate, input[2], aggregation)]
    /\ UNCHANGED cache

TrackingError ==
    /\ call = Idle
    /\ \E portfolio_returns \in TrackingPortfolios, benchmark_returns \in TrackingBenchmarks,
          aggregation \in Aggregations :
        call' = [op |-> "tracking_error", portfolio_returns |-> portfolio_returns,
                 benchmark_returns |-> benchmark_returns,
                 periods_per_year |-> Rat(2, 1), aggregation |-> aggregation,
                 result |-> tracking_error(portfolio_returns, benchmark_returns,
                                           Rat(2, 1), aggregation)]
    /\ UNCHANGED cache

MaximumDrawdown ==
    /\ call = Idle
    /\ \E period_returns \in ReturnMatrices, aggregation \in Aggregations :
        call' = [op |-> "maximum_drawdown", period_returns |-> period_returns,
                 aggregation |-> aggregation,
                 max_dd_per_sim |-> max_dd_per_sim(period_returns),
                 error |-> NoError,
                 result |-> maximum_drawdown(period_returns, aggregation)]
    /\ UNCHANGED cache

Return ==
    /\ call # Idle
    /\ call' = Idle
    /\ UNCHANGED cache

Next ==
    \/ InitializeCache
    \/ GetCachedData
    \/ GetAssetMask
    \/ NormalizeWeights
    \/ BuildPortfolioReturns
    \/ ForecastAnnualisedReturn
    \/ PortfolioPeriodReturns
    \/ PortfolioAnalysisPipeline
    \/ CalculateAssetMetrics
    \/ AssetMetricsEndpoint
    \/ ValidateBaseInputs
    \/ ImportFromStats
    \/ SharpeRatio
    \/ TrackingError
    \/ MaximumDrawdown
    \/ ValueAtRisk
    \/ ConditionalValueAtRisk
    \/ Return

Spec == Init /\ [][Next]_vars

(***************************************************************************)
(* Properties.                                                             *)
(***************************************************************************)
CacheLoaded == RETURNS # None /\ ASSET_CATEGORIES # None

\* asset i passes the filters: a filter that is None or empty filters nothing
Survives(i, include, exclude) ==
    /\ (Truthy(include) => PyIn(ASSET_CATEGORIES[i], include))
    /\ (Truthy(exclude) => ~PyIn(ASSET_CATEGORIES[i], exclude))

SelectsNothing(include, exclude) ==
    \A i \in 1..Len(ASSET_NAMES) : ~Survives(i, include, exclude)

\* asset i is selected by a request's category lists (None = no filter)
RequestSelects(i, include, exclude) ==
    /\ (include.kind # "None" => ASSET_CATEGORIES[i] \in include.items)
    /\ (exclude.kind # "None" => ASSET_CATEGORIES[i] \notin exclude.items)

RequestSelection(request) ==
    {i \in 1..Len(ASSET_NAMES) :
        RequestSelects(i, request.include_categories, request.exclude_categories)}

MaskSet(mask) == {i \in DOMAIN mask : mask[i]}

IsEndpointCall == call.op = "forecast_annualised_return"

\* C1 (as claimed): a valid request to the statistic endpoint is computed over
\* exactly the assets its include_categories and exclude_categories select,
\* whatever its rebalance value, and n_assets_used is the size of that set
\* (all NAssets assets when no filter is given).
C1_AssetsUsedAreThoseSelected ==
    (IsEndpointCall /\ CacheLoaded /\ ValidRequest(call.request)
     /\ RequestSelection(call.request) # {})
    => /\ call.response.status = 200
       /\ MaskSet(call.response.built.asset_mask) = RequestSelection(call.request)
       /\ call.response.n_assets_used = Cardinality(RequestSelection(call.request))

\* C2 (as claimed): the matrix P a statistic endpoint computes its value on is
\* portfolio_period_returns(normalized weights, filtered tensor,
\* request.rebalance): buy-and-hold for 'none', fixed weights for 'periodic'.
C2_RebalanceGovernsP ==
    (IsEndpointCall /\ call.response.status = 200)
    => call.response.built.portfolio_returns
         = portfolio_period_returns(call.response.built.normalized_weights,
                                    call.response.built.masked_returns,
                                    call.request.rebalance).portfolio_returns

IsMaskCall ==
    /\ call.op = "get_asset_mask"
    /\ CacheLoaded
    /\ call.include_categories.kind \in {"None", "list"}
    /\ call.exclude_categories.kind \in {"None", "list"}

\* C4 (as claimed): get_asset_mask returns a mask that is true for asset i
\* exactly when (include is absent or category(i) is in include) and
\* (exclude is absent or category(i) is not in exclude).
C4_MaskAsClaimed ==
    (IsMaskCall /\ call.result.error = NoError)
    => \A i \in 1..Len(ASSET_NAMES) :
           call.result.asset_mask[i]
             = RequestSelects(i, call.include_categories, call.exclude_categories)

\* asset i is selected when an include list that is absent or empty filters
\* nothing
SelectsOrEmpty(i, include, exclude) ==
    /\ (include.kind = "None" \/ include.items = {}
        \/ ASSET_CATEGORIES[i] \in include.items)
    /\ (exclude.kind = "None" \/ ASSET_CATEGORIES[i] \notin exclude.items)

\* C4 (amended): get_asset_mask returns a mask that is true for asset i
\* exactly when (include is absent or empty or category(i) is in include) and
\* (exclude is absent or category(i) is not in exclude); it returns that mask
\* whenever it selects at least one asset.
C4_MaskAbsentOrEmpty ==
    IsMaskCall
    => LET sel == [i \in 1..Len(ASSET_NAMES) |->
                      SelectsOrEmpty(i, call.include_categories, call.exclude_categories)]
       IN  /\ call.result.error = NoError => call.result.asset_mask = sel
           /\ (\E i \in DOMAIN sel : sel[i]) => call.result.error = NoError

C4_Witness ==
    /\ IsMaskCall
    /\ call.include_categories = PyList({"Fixed Income", "Cash"})
    /\ call.exclude_categories = PyList({"Cash"})
    /\ call.result.error = NoError
    /\ \E i, j \in DOMAIN call.result.asset_mask :
           call.result.asset_mask[i] /\ ~call.result.asset_mask[j]

IsNormalizeCall == call.op = "normalize_weights"

MaskedSumIsZero ==
    /\ Len(call.weights) = Len(call.asset_mask)
    /\ RSum(Masked(call.weights, call.asset_mask)) = Zero

NonNegative(v) == \A i \in DOMAIN v : v[i][1] >= 0

\* C6: for a non-negative weight vector of full length and a mask selecting
\* at least one asset, the weights normalize_weights returns are
\* non-negative, one per selected asset, and sum to 1.0 within 1e-6.
C6_NormalizedSumToOne ==
    (IsNormalizeCall /\ NonNegative(call.weights)
     /\ Len(call.weights) = Len(call.asset_mask)
     /\ CountTrue(call.asset_mask) >= 1 /\ call.result.error = NoError)
    => LET w == call.result.normalized_weights
           d == RSub(RSum(w), One)
       IN  /\ NonNegative(w)
           /\ Len(w) = CountTrue(call.asset_mask)
           /\ RLeq(<<Abs(d[1]), d[2]>>, Rat(1, 1000000))

C6_Witness ==
    /\ IsNormalizeCall
    /\ NonNegative(call.weights)
    /\ call.result.error = NoError
    /\ CountTrue(call.asset_mask) \in 2..(NAssets - 1)
    /\ RSum(Masked(call.weights, call.asset_mask)) \notin {Zero, One}
    /\ \E i, j \in DOMAIN call.result.normalized_weights :
           call.result.normalized_weights[i] # call.result.normalized_weights[j]

IsBuilderCall == call.op = "portfolio_period_returns"

DimensionsMatch == Len(call.weights) = Len(call.returns)

\* sum over the assets a = 1..n of w[a] * R[a][t][s]
RECURSIVE WeightedSum(_, _, _, _, _)
WeightedSum(w, R, t, s, n) ==
    IF n = 0 THEN Zero ELSE RAdd(WeightedSum(w, R, t, s, n - 1), RMul(w[n], R[n][t][s]))

\* C7: with rebalance = 'periodic', portfolio_period_returns returns P with
\* P[t,s] = sum over a of weights[a] * R[a,t,s] for every period t and path
\* s; weight 1 on one asset and 0 on the others yields that asset's return
\* series; the (2,2,2) tensor of the tests with weights [0.6, 0.4] yields
\* [[0.12, 0.22], [0.062, -0.08]].
C7_PeriodicIsWeightedSum ==
    (IsBuilderCall /\ call.rebalance = "periodic" /\ DimensionsMatch)
    => LET w == call.weights
           R == call.returns
           P == call.result.portfolio_returns
       IN  /\ call.result.error = NoError
           /\ Len(P) = Len(R[1])
           /\ \A t \in 1..Len(R[1]) :
                  /\ Len(P[t]) = Len(R[1][t])
                  /\ \A s \in 1..Len(R[1][t]) : P[t][s] = WeightedSum(w, R, t, s, Len(w))
           /\ \A k \in 1..Len(w) : w = OneHot(Len(w), k) => P = R[k]
           /\ (w = ScenarioWeights /\ R = ScenarioReturns)
              => P = << <<Rat(12, 100), Rat(22, 100)>>, <<Rat(62, 1000), Rat(-8, 100)>> >>

C7_Witness ==
    /\ IsBuilderCall
    /\ call.rebalance = "periodic"
    /\ call.weights = ScenarioWeights
    /\ call.returns = ScenarioReturns
    /\ call.result.portfolio_returns[2][1] = Rat(62, 1000)

\* C8 (as claimed): with rebalance = 'none', the weights used for period t+1
\* (t < T-1) are the original weights times each asset's compounded
\* performance over periods 0..t, normalized per path, averaged over the
\* paths and renormalized: the original weights, not the drifted ones.
C8_DriftFromOriginalWeights ==
    (IsBuilderCall /\ call.rebalance = "none" /\ DimensionsMatch
     /\ Len(call.returns[1]) >= 2)
    => \A t \in 1..(Len(call.returns[1]) - 1) :
           call.result.current_weights[t + 1]
             = drift_update(call.weights, call.returns, t)

\* C9: portfolio_period_returns fails with DimensionMismatch whenever
\* len(weights) differs from the number of assets of the tensor, for every
\* rebalance value, recognised or not, and returns no matrix.
C9_DimensionMismatch ==
    (IsBuilderCall /\ ~DimensionsMatch)
    => /\ call.result.error = DimensionMismatch
       /\ call.result.portfolio_returns = None

C9_Witness ==
    /\ IsBuilderCall
    /\ ~DimensionsMatch
    /\ call.rebalance = "invalid"
    /\ call.result.error = DimensionMismatch

\* C10: portfolio_period_returns called with matching dimensions and a
\* rebalance value other than 'periodic' and 'none' fails with
\* 'Invalid rebalancing strategy' and computes no returns.
C10_InvalidRebalanceMethod ==
    (IsBuilderCall /\ DimensionsMatch /\ call.rebalance \notin {"periodic", "none"})
    => /\ call.result.error = InvalidRebalanceMethod
       /\ call.result.portfolio_returns = None

C10_Witness ==
    /\ IsBuilderCall
    /\ DimensionsMatch
    /\ call.rebalance = "Periodic"
    /\ Len(call.weights) >= 2
    /\ call.result.error = InvalidRebalanceMethod

\* every simulation's cumulative path never falls
NonDecreasingPaths(P) ==
    LET c == cumprod(P)
    IN  \A s \in 1..Len(P[1]) : \A t \in 1..(Len(P) - 1) : RLeq(c[t][s], c[t + 1][s])

\* C11 (as claimed): maximum_drawdown is >= 0 for every return matrix and
\* every aggregation, and is 0 whenever every simulation's cumulative path
\* is monotonically non-decreasing.
C11_DrawdownNonNegative ==
    call.op = "maximum_drawdown"
    => /\ RLeq(Zero, call.result)
       /\ NonDecreasingPaths(call.period_returns) => call.result = Zero

\* C12 (as claimed): the per-simulation max_drawdown that
\* portfolio_analysis_pipeline reports equals the per-simulation worst
\* drawdown that maximum_drawdown aggregates on the same period returns:
\* same sign, same magnitude.
C12_OneDrawdownConvention ==
    (call.op = "portfolio_analysis_pipeline" /\ call.result.error = NoError)
    => call.result.max_drawdown = max_dd_per_sim(call.result.period_returns)

IsVarCall == call.op = "value_at_risk"

IsCvarCall == call.op = "conditional_value_at_risk"

ValidConfidence(c) == c[1] > 0 /\ c[2] > 0 /\ c[1] < c[2]

C14_PooledVarMonotone ==
    (IsVarCall /\ call.var_type = "pooled" /\ call.result.error = NoError)
    => \A c2 \in Confidences :
           (ValidConfidence(c2) /\ RLeq(call.confidence, c2))
           => RLeq(value_at_risk(call.period_returns, c2, "pooled").value, call.result.value)

C14_Witness ==
    /\ IsVarCall
    /\ call.var_type = "pooled"
    /\ call.confidence = Rat(1, 2)
    /\ call.result.error = NoError
    /\ call.result.value # value_at_risk(call.period_returns, Rat(19, 20), "pooled").value

\* the value at position q * (n - 1) of the sorted sample, as the weighted
\* average of the two order statistics next to it
InterpolatedOrderStatistic(a, q) ==
    LET o == Sorted(a)
        n == Len(a)
        pos == RMul(q, Rat(n - 1, 1))
        k == pos[1] \div pos[2]
        w == RSub(pos, Rat(k, 1))
    IN  IF k + 1 = n THEN o[n]
        ELSE RAdd(RMul(RSub(One, w), o[k + 1]), RMul(w, o[k + 2]))

\* C15: pooled value_at_risk is the (1 - confidence)-quantile of the T*S
\* pooled values, linearly interpolated between adjacent order statistics;
\* pooled conditional_value_at_risk is the mean of the pooled values <= that
\* quantile; for P = [[0.1,0.2],[0.05,-0.1],[-0.05,0.0]] and confidence 0.95
\* they are -0.0875 and -0.1.
C15_PooledQuantileAndTailMean ==
    LET pooled == flatten(call.period_returns)
        q == InterpolatedOrderStatistic(pooled, RSub(One, call.confidence))
        tail == SelectSeq(pooled, LAMBDA x : RLeq(x, q))
    IN  /\ (IsVarCall /\ call.var_type = "pooled" /\ ValidConfidence(call.confidence))
           => /\ call.result.error = NoError
              /\ Len(pooled) = Len(call.period_returns) * Len(call.period_returns[1])
              /\ call.result.value = q
              /\ (call.period_returns = VarTestReturns /\ call.confidence = Rat(19, 20))
                 => call.result.value = Rat(-875, 10000)
        /\ (IsCvarCall /\ call.var_type = "pooled" /\ ValidConfidence(call.confidence))
           => /\ call.result.error = NoError
              /\ call.result.value = RDiv(RSum(tail), Rat(Len(tail), 1))
              /\ (call.period_returns = VarTestReturns /\ call.confidence = Rat(19, 20))
                 => call.result.value = Rat(-1, 10)

C15_Witness ==
    /\ IsVarCall
    /\ call.var_type = "pooled"
    /\ call.period_returns = VarTestReturns
    /\ call.confidence = Rat(19, 20)
    /\ call.result.value = Rat(-875, 10000)

\* C16: value_at_risk and conditional_value_at_risk fail with 'Confidence
\* must be between 0 and 1' when confidence <= 0 or >= 1 and with 'var_type
\* must be ...' when var_type is none of pooled, year_by_year, cumulative;
\* the confidence is checked first; no value is returned in either case.
C16_ConfidenceThenMethod ==
    (IsVarCall \/ IsCvarCall)
    => /\ ~ValidConfidence(call.confidence)
          => call.result = [error |-> InvalidConfidence, value |-> None]
       /\ (ValidConfidence(call.confidence)
           /\ call.var_type \notin {"pooled", "year_by_year", "cumulative"})
          => call.result = [error |-> InvalidVarMethod, value |-> None]

C16_Witness ==
    /\ IsVarCall
    /\ call.confidence = One
    /\ call.var_type = "historical"
    /\ call.result.error = InvalidConfidence

IsTrackingCall == call.op = "tracking_error"

SameShape ==
    /\ Len(call.portfolio_returns) = Len(call.benchmark_returns)
    /\ Len(call.portfolio_returns[1]) = Len(call.benchmark_returns[1])

\* C17 (as claimed): tracking_error fails with 'Portfolio and benchmark
\* returns must have the same shape' whenever the two matrices differ in
\* shape, before any excess return is computed, and returns a non-negative
\* value whenever the shapes are equal.
C17_TrackingErrorAsClaimed ==
    IsTrackingCall
    => /\ ~SameShape
          => call.result = [error |-> ShapeMismatch, excess_returns |-> None, value |-> None]
       /\ SameShape => (call.result.error = NoError /\ RLeq(Zero, call.result.value))

\* C17 (amended): tracking_error fails with that error whenever the two
\* matrices differ in shape, before any excess return is computed, and
\* returns a non-negative value whenever the shapes are equal and there are
\* at least two periods; with a single period it returns nan.
C17_TrackingErrorTwoPeriods ==
    IsTrackingCall
    => /\ ~SameShape
          => call.result = [error |-> ShapeMismatch, excess_returns |-> None, value |-> None]
       /\ (SameShape /\ Len(call.portfolio_returns) >= 2)
          => (call.result.error = NoError /\ RLeq(Zero, call.result.value))
       /\ (SameShape /\ Len(call.portfolio_returns) = 1)
          => (call.result.error = NoError /\ call.result.value = NaN)

C17_Witness ==
    /\ IsTrackingCall
    /\ SameShape
    /\ Len(call.portfolio_returns) = 2
    /\ Len(call.portfolio_returns[1]) = NSims
    /\ call.result.error = NoError
    /\ call.result.value # Zero
    /\ RLeq(Zero, call.result.value)

IsSharpeCall == call.op = "sharpe_ratio"

\* the constant return of simulation s, annualised
FlatReturn(s) ==
    annualised_return([t \in 1..Len(call.period_returns) |-> <<call.period_returns[t][s]>>],
                      call.periods_per_year, "mean")

\* C18 (as claimed): for a return matrix in which every simulation has zero
\* volatility, sharpe_ratio raises no error and returns +infinity when the
\* return exceeds the risk-free rate, -infinity when it is below it and 0.0
\* when it equals it.
C18_ZeroVolatilitySharpe ==
    (IsSharpeCall /\ Len(call.period_returns) >= 2 /\ ZeroVolatility(call.period_returns))
    => LET S == Len(call.period_returns[1])
           rfr == call.risk_free_rate
       IN  /\ (\A s \in 1..S : FlatReturn(s) # rfr /\ RLeq(rfr, FlatReturn(s)))
              => call.result = <<1, 0>>
           /\ (\A s \in 1..S : FlatReturn(s) # rfr /\ RLeq(FlatReturn(s), rfr))
              => call.result = <<-1, 0>>
           /\ (\A s \in 1..S : FlatReturn(s) = rfr) => call.result = Zero

C20_RatiosProvided ==
    (call.op = "import"
     /\ call.name \in {"sortino_ratio", "information_ratio", "calmar_ratio"})
    => call.error = NoError

\* C21 (as claimed): in every state in which the startup load has not
\* completed, get_cached_data fails with "Data cache not initialized" and
\* get_asset_mask ends in an error without building a mask.
C21_NotInitializedUntilLoaded ==
    ASSET_CATEGORIES = None =>
        /\ (call.op = "get_cached_data" => call.error = CacheNotInitialized)
        /\ (call.op = "get_asset_mask" =>
                /\ call.result.error # NoError
                /\ call.result.asset_mask = None)

\* C28 (as claimed): after any sequence of initialize_cache calls, failed
\* ones included, get_cached_data either raises or returns a tensor, names,
\* categories and index map that are all populated and describe the same
\* assets.
C28_NeverPartialData ==
    (call.op = "get_cached_data" /\ call.error = NoError) =>
        /\ \A k \in 1..4 : call.data[k] # None
        /\ Len(call.data[1]) = Len(call.data[2])
        /\ Len(call.data[3]) = Len(call.data[2])
        /\ \A i \in 1..Len(call.data[2]) : call.data[4][i - 1] = call.data[3][i]

\* C22: once initialize_cache has succeeded, a get_cached_data call returns
\* the cached tensor, asset-name list, category list and index map
\* themselves, and no step other than an initialize_cache call (no
\* calculation request, in any order) changes any of the four.
C22_CacheReadOnly ==
    [][/\ (CacheLoaded /\ call'.op # "initialize_cache") => UNCHANGED cache
       /\ (CacheLoaded /\ call'.op = "get_cached_data") =>
            /\ call'.error = NoError
            /\ call'.data = <<RETURNS, ASSET_NAMES, ASSET_CATEGORIES,
                              ASSET_INDEX_TO_CATEGORY>>]_vars

\* C22 (witness): the cache is loaded and an asset_metrics request has been
\* answered from it.
C22_Witness ==
    /\ CacheLoaded
    /\ call.op = "asset_metrics"
    /\ call.response.status = 200
    /\ Len(call.response.computed.selected_indices) >= 2

IsAssetMetricsCall == call.op = "calculate_asset_metrics"

\* the indices of the strictly positive weights, ascending
PositiveWeightIndices(weights) ==
    {i \in DOMAIN weights : IsFinite(weights[i]) /\ weights[i][1] > 0}
    \cup {i \in DOMAIN weights : weights[i] = <<1, 0>>}

\* the k-th smallest member of a set of indices
RECURSIVE KthOf(_, _)
KthOf(set, k) ==
    LET least == CHOOSE i \in set : \A j \in set : i <= j
    IN  IF k = 1 THEN least ELSE KthOf(set \ {least}, k - 1)

\* C23 (as claimed): with the cache loaded, calculate_asset_metrics returns,
\* for every aggregation and corr_method of the three, one metrics entry per
\* asset of strictly positive weight, in asset-index order, and one triple for
\* every ordered pair of them, self-pairs included (n * n triples).
C23_PositiveWeightAssets ==
    (/\ IsAssetMetricsCall
     /\ RETURNS # None
     /\ call.aggregation \in CorrMethods
     /\ call.corr_method \in CorrMethods) =>
        LET sel == PositiveWeightIndices(call.weights)
            n == Cardinality(sel)
            r == call.result
        IN  /\ r.error = NoError
            /\ Len(r.asset_metrics) = n
            /\ \A i \in 1..n : r.asset_metrics[i].asset = ASSET_NAMES[KthOf(sel, i)]
            /\ Len(r.correlation_matrix) = n * n
            /\ \A i \in 1..n, j \in 1..n :
                LET triple == r.correlation_matrix[(i - 1) * n + j]
                IN  /\ triple.asset1 = ASSET_NAMES[KthOf(sel, i)]
                    /\ triple.asset2 = ASSET_NAMES[KthOf(sel, j)]

FisherMethods == {"year_by_year", "simulation_by_simulation"}

IsFisherReport ==
    /\ IsAssetMetricsCall
    /\ call.corr_method \in FisherMethods
    /\ call.result.error = NoError

\* the correlation reported for the pair (i, j) of selected assets
Reported(i, j) ==
    call.result.correlation_matrix[
        (i - 1) * Len(call.result.selected_indices) + j].correlation

\* equality of two reported values, of which either may be a float or an
\* exact root or tanh value
SameValue(a, b) ==
    IF IsFloat(a) /\ IsFloat(b) THEN a = b
    ELSE IF IsFloat(a) \/ IsFloat(b) THEN FALSE
    ELSE DOMAIN a = DOMAIN b /\ a = b

FiniteEntry(x) == IsFloat(x) => IsFinite(x)

\* the Fisher-averaged matrix entry (i, j), before the reporting pass
Averaged(i, j) == call.result.corr_matrix[i][j]

\* some per-period or per-simulation matrix has a non-finite entry (i, j)
NonFiniteInSomeMatrix(i, j) ==
    \E k \in DOMAIN call.result.corr_matrices :
        ~FiniteEntry(call.result.corr_matrices[k].m[i][j])

\* C29: in a Fisher-averaged report, a non-finite correlation of a pair in
\* any single per-period or per-simulation matrix makes the averaged entry
\* non-finite (nothing is substituted before averaging) and that off-diagonal
\* entry is reported as 0.0, and an off-diagonal entry whose averaged value
\* is finite is reported unchanged.
C29_SubstitutionOnlyWhenReporting ==
    IsFisherReport =>
        \A i \in DOMAIN call.result.selected_indices,
           j \in DOMAIN call.result.selected_indices :
            i # j =>
                /\ NonFiniteInSomeMatrix(i, j) =>
                        ~FiniteEntry(Averaged(i, j)) /\ Reported(i, j) = Zero
                /\ FiniteEntry(Averaged(i, j)) => SameValue(Reported(i, j), Averaged(i, j))

\* C29 (witness): one report with a pair that is nan in a single matrix and
\* finite in the others, and a pair that is finite in every matrix.
C29_Witness ==
    /\ IsFisherReport
    /\ \E i \in DOMAIN call.result.selected_indices,
          j \in DOMAIN call.result.selected_indices :
            /\ i # j
            /\ NonFiniteInSomeMatrix(i, j)
            /\ \E k \in DOMAIN call.result.corr_matrices :
                FiniteEntry(call.result.corr_matrices[k].m[i][j])
    /\ \E i \in DOMAIN call.result.selected_indices,
          j \in DOMAIN call.result.selected_indices :
            i # j /\ FiniteEntry(Averaged(i, j)) /\ ~IsFloat(Reported(i, j))

\* weights as the contract requires them: finite, non-negative, and summing
\* to 1.0 within 1e-6
WeightsAsRequired(w) ==
    /\ \A i \in DOMAIN w : IsFinite(w[i]) /\ w[i][1] >= 0
    /\ LET d == RSub(RSum(w), One) IN RLeq(<<Abs(d[1]), d[2]>>, Rat(1, 1000000))

\* C25 (as claimed): the statistic endpoint and asset_metrics reject a
\* weight vector that has a non-finite or negative entry or does not sum to
\* 1.0, at validation, before anything is computed on the tensor.
C25_InvalidWeightsRejected ==
    /\ (IsEndpointCall /\ ~WeightsAsRequired(call.request.weights)) =>
            /\ call.response.status = 422
            /\ call.response.value = None
    /\ (call.op = "asset_metrics" /\ ~WeightsAsRequired(call.request.weights)) =>
            /\ call.response.status = 422
            /\ call.response.computed = None

\* C26 (as claimed): a statistic function called with an aggregation other
\* than mean and median, and calculate_asset_metrics called with an
\* aggregation or corr_method other than pooled, year_by_year and
\* simulation_by_simulation, fails instead of returning a value.
C26_InvalidAggregationFails ==
    /\ (call.op = "maximum_drawdown" /\ call.aggregation \notin {"mean", "median"}) =>
            call.error # NoError
    /\ (/\ IsAssetMetricsCall
        /\ (call.aggregation \notin CorrMethods \/ call.corr_method \notin CorrMethods)) =>
            call.result.error # NoError

\* C27 (as claimed): under rebalance = 'none', for weights that sum to 1,
\* every drift update leaves a weight vector whose entries are finite and
\* sum to 1, also when the weighted cumulative sum of one path or of every
\* path is exactly zero.
C27_DriftedWeightsSumToOne ==
    (/\ IsBuilderCall
     /\ call.rebalance = "none"
     /\ DimensionsMatch
     /\ RSum(call.weights) = One) =>
        \A t \in 2..Len(call.result.current_weights) :
            /\ \A a \in DOMAIN call.weights : IsFinite(call.result.current_weights[t][a])
            /\ RSum(call.result.current_weights[t]) = One

\* the two category lists of a request share a category
SharedCategory(include, exclude) ==
    /\ include.kind = "list"
    /\ exclude.kind = "list"
    /\ include.items \cap exclude.items # {}

\* C30: a request whose include_categories and exclude_categories share a
\* category is rejected at validation (ForecastStatisticRequest and
\* BaseInputs alike): it is answered 422 with no mask built and no statistic
\* computed.
C30_OverlapRejected ==
    /\ (/\ IsEndpointCall
        /\ SharedCategory(call.request.include_categories,
                          call.request.exclude_categories)) =>
            /\ call.response.status = 422
            /\ call.response.value = None
            /\ call.response.built.asset_mask = None
    /\ (/\ call.op = "BaseInputs"
        /\ SharedCategory(call.include_categories, call.exclude_categories)) =>
            /\ call.result.error # NoError
            /\ call.result.inputs = None

\* C30 (witness): a request that is valid but for a partial overlap of its
\* two category lists has been rejected.
C30_Witness ==
    /\ IsEndpointCall
    /\ CacheLoaded
    /\ call.request.include_categories = PyList({"Equity"})
    /\ call.request.exclude_categories = PyList({"Equity", "Cash"})
    /\ validate_weights(call.request.weights)
    /\ validate_rebalance(call.request.rebalance)
    /\ call.response.status = 422

====
